---- MODULE Spec2Model ----
(***************************************************************************)
(* ShelfScout backend: the two request handlers, api/food.js (nutrition    *)
(* search through FatSecret) and api/ai.js (AI guidance through the OpenAI *)
(* chat-completion API).  One handler invocation is followed from the      *)
(* moment the platform calls handler(req, res) to the moment it has sent   *)
(* its response or its promise has rejected.  Every await of the code is a *)
(* separate step; what the upstream service answers is chosen at the step  *)
(* where the awaited promise settles.                                      *)
(*                                                                         *)
(* Numbers parsed out of a food description are kept in hundredths (3.6 is *)
(* 360) so that Math.round is integer arithmetic; the response carries     *)
(* calories in units and the other nutrients in tenths.                    *)
(***************************************************************************)
EXTENDS Integers, Sequences, FiniteSets, TLC

VARIABLES
    env,        \* process.env: the three credentials
    endpoint,   \* which handler is running: "none", "food" or "ai"
    req,        \* the request handed to the handler
    pc,         \* where the invocation stands
    query,      \* food.js: const query (line 140)
    prompt,     \* ai.js: let prompt (line 19), the template chosen
    httpOk,     \* ai.js: response.ok of the awaited fetch
    reply,      \* what the upstream service answered (the decoded body)
    calls,      \* outbound HTTP calls issued by this invocation, in order
    responses,  \* res.status(..).json(..) calls of this invocation, in order
    escaped,    \* the handler's promise rejected (an exception left it)
    argument,   \* the argument of a call of parseNutritionFromDescription
    parsed      \* how that call ended: pending, returned (its record) or threw

vars == <<env, endpoint, req, pc, query, prompt, httpOk, reply, calls, responses, escaped,
          argument, parsed>>

----------------------------------------------------------------------------
(* JavaScript values *)

Undefined == "undefined"
Null == "null"

\* ToBoolean of a value that is undefined, null or a string
Falsy(v) == v \in {Undefined, Null, ""}
Truthy(v) == ~Falsy(v)

\* a || b
Or(a, b) == IF Truthy(a) THEN a ELSE b

\* A string holding a lone surrogate: encodeURIComponent throws URIError on it
Malformed == "\\uD800"

----------------------------------------------------------------------------
(* Bounds *)

\* longest upstream food array tried (one more than the cut at 20)
MaxItems == 21
\* longest completion text tried, in characters
MaxLen == 3
\* longest food description tried, in segments
MaxSegs == 2

----------------------------------------------------------------------------
(* food.js: parseNutritionFromDescription *)

\* A description is undefined, null, a number (not text) or a string.  A string is
\* a list of segments "<label>: <num><unit>"; num = "" when no digits follow
\* the label, unit = "" when no word follows the number.
Seg(label, num, unit) == [label |-> label, num |-> num, unit |-> unit]

DescUndefined == [kind |-> "undefined", segs |-> <<>>]
DescNull == [kind |-> "null", segs |-> <<>>]
DescNumber == [kind |-> "number", segs |-> <<>>]
DescString(segs) == [kind |-> "string", segs |-> segs]

\* what each regular expression accepts as its label (all are /i and none is
\* anchored, so "Fat:" is also found at the end of "Saturated Fat:")
LabelForms(field) ==
    CASE field = "serving" -> {"Per", "per"}
      [] field = "calories" -> {"Calories", "CALORIES"}
      [] field = "fat" -> {"Fat", "Saturated Fat"}
      [] field = "carbs" -> {"Carbs", "Carb", "Carbohydrates", "Carbohydrate"}
      [] field = "protein" -> {"Protein", "protein"}

\* NaN, as parseFloat(".") gives
NaN == -1

\* parseFloat of a capture of [\d.]+, in hundredths
parseFloat(text) ==
    CASE text = "0" -> 0
      [] text = "1" -> 100
      [] text = "3.6" -> 360
      [] text = "3.64" -> 364
      [] text = "31" -> 3100
      [] text = "50" -> 5000
      [] text = "100" -> 10000
      [] text = "164.5" -> 16450
      [] text = "165" -> 16500
      [] text = "1.2.3" -> 120
      [] OTHER -> NaN

\* description.match(re): the first segment whose label the expression accepts
\* and which carries what the expression asks after the label; 0 when none
MatchNutrient(segs, field) ==
    LET hits == {i \in 1..Len(segs) : segs[i].label \in LabelForms(field) /\ segs[i].num # ""}
    IN  IF hits = {} THEN 0 ELSE CHOOSE i \in hits : \A j \in hits : i <= j

MatchServing(segs) ==
    LET hits == {i \in 1..Len(segs) : /\ segs[i].label \in LabelForms("serving")
                                      /\ segs[i].num # ""
                                      /\ segs[i].unit # ""}
    IN  IF hits = {} THEN 0 ELSE CHOOSE i \in hits : \A j \in hits : i <= j

NutritionDefaults ==
    [calories |-> 0, fat |-> 0, carbs |-> 0, protein |-> 0,
     servingSize |-> "100", servingUnit |-> "g"]

NutrientOf(segs, field) ==
    LET m == MatchNutrient(segs, field)
    IN  IF m = 0 THEN NutritionDefaults[field] ELSE parseFloat(segs[m].num)

\* [threw, value]: description.match is not a function when description is a
\* truthy value that is not a string
parseNutritionFromDescription(description) ==
    IF description.kind \in {"undefined", "null"}
       \/ (description.kind = "string" /\ description.segs = <<>>)
    THEN [threw |-> FALSE, value |-> NutritionDefaults]
    ELSE IF description.kind # "string"
    THEN [threw |-> TRUE, value |-> NutritionDefaults]
    ELSE LET segs == description.segs
             s == MatchServing(segs)
         IN  [threw |-> FALSE,
              value |-> [calories |-> NutrientOf(segs, "calories"),
                         fat |-> NutrientOf(segs, "fat"),
                         carbs |-> NutrientOf(segs, "carbs"),
                         protein |-> NutrientOf(segs, "protein"),
                         servingSize |-> IF s = 0 THEN "100" ELSE segs[s].num,
                         servingUnit |-> IF s = 0 THEN "g" ELSE segs[s].unit]]

----------------------------------------------------------------------------
(* food.js: searchFatSecret, from the awaited reply on (lines 90-119) *)

\* rawFoods.slice(0, 20)
MaxResults == 20

Min(a, b) == IF a <= b THEN a ELSE b

\* An item of data.foods.food: null, or an object
NullItem ==
    [isNull |-> TRUE, food_id |-> 0, food_name |-> Undefined, brand_name |-> Undefined,
     food_description |-> DescUndefined]
FoodItem(id, name, brand, description) ==
    [isNull |-> FALSE, food_id |-> id, food_name |-> name, brand_name |-> brand,
     food_description |-> description]

\* An array that stands as a value of data.error.message: String([]) is ""
EmptyArray == "[]"
StringOf(v) == IF v = EmptyArray THEN "" ELSE v

\* new Error(data.error.message || 'FatSecret API error').message
UpstreamErrorMessage(error) == StringOf(Or(error.message, "FatSecret API error"))

\* body of the map callback (lines 105-114)
ShapeFood(food) ==
    LET nutrition == parseNutritionFromDescription(food.food_description).value
    IN  [food_id |-> food.food_id,
         food_name |-> food.food_name,
         brand_name |-> food.brand_name,
         food_description |-> food.food_description,
         calories |-> nutrition.calories,
         fat |-> nutrition.fat,
         carbs |-> nutrition.carbs,
         protein |-> nutrition.protein,
         servingSize |-> nutrition.servingSize,
         servingUnit |-> nutrition.servingUnit]

\* the callback throws a TypeError on a null item (food.food_description) and
\* when parseNutritionFromDescription throws
ShapeFoodThrows(food) ==
    food.isNull \/ parseNutritionFromDescription(food.food_description).threw

\* Array.isArray(data.foods.food) ? data.foods.food : [data.foods.food]
RawFoods(food) == IF food.kind = "array" THEN food.items ELSE <<food.item>>

\* the map over rawFoods without the slice
SliceFoodsNoCut(rawFoods) == rawFoods

SliceFoods(rawFoods) == SubSeq(rawFoods, 1, Min(Len(rawFoods), MaxResults))

\* What searchFatSecret returns once fetch has resolved and response.json()
\* has settled with `data` (lines 92-119).  data.kind = "invalid": json()
\* rejected; "null": the reply was the JSON value null.
searchFatSecretReturn(data) ==
    IF data.kind = "invalid"
    THEN [foods |-> <<>>, error |-> "Unexpected end of JSON input"]
    ELSE IF data.kind = "null"
    THEN [foods |-> <<>>, error |-> "Cannot read properties of null (reading 'error')"]
    ELSE IF data.error.kind = "object"
    THEN [foods |-> <<>>, error |-> UpstreamErrorMessage(data.error)]
    ELSE IF data.food.kind = "undefined"
    THEN [foods |-> <<>>, error |-> Null]
    ELSE LET kept == SliceFoods(RawFoods(data.food))
         IN  IF \E i \in 1..Len(kept) : ShapeFoodThrows(kept[i])
             THEN [foods |-> <<>>, error |-> "TypeError in the map callback"]
             ELSE [foods |-> [i \in 1..Len(kept) |-> ShapeFood(kept[i])], error |-> Null]

\* fetch rejected (line 91 throws, line 118 returns)
searchFatSecretRejected == [foods |-> <<>>, error |-> "fetch failed"]

----------------------------------------------------------------------------
(* food.js: handler *)

\* the secret left unchecked
FoodConfiguredKeyOnly(e) == Truthy(e.FATSECRET_CONSUMER_KEY)

\* !consumerKey || !consumerSecret (line 130), negated
FoodConfigured(e) ==
    Truthy(e.FATSECRET_CONSUMER_KEY) /\ Truthy(e.FATSECRET_CONSUMER_SECRET)

\* const { barcode, search } = req.body throws on undefined and on null
DestructureThrows(body) == body.kind \in {"undefined", "null"}

\* a property read off the destructured body: a string body has none
Field(body, name) == IF body.kind = "object" THEN body[name] ELSE Undefined

\* only an absent field counts as missing: barcode === undefined && ...
QueryMissingUndefinedOnly(barcode, search) == barcode = Undefined /\ search = Undefined

\* !barcode && !search (line 136)
QueryMissing(barcode, search) == Falsy(barcode) /\ Falsy(search)

\* search || barcode
FoodQuerySearchFirst(barcode, search) == Or(search, barcode)

\* const query = barcode || search (line 140)
FoodQuery(barcode, search) == Or(barcode, search)

\* percentEncode -> encodeURIComponent throws URIError on a lone surrogate
percentEncodeThrows(str) == str = Malformed

\* search && !barcode (line 154)
IsSearchMode(barcode, search) == Truthy(search) /\ Falsy(barcode)

\* food.calories || 0 and the like: NaN and 0 are falsy
NumOr(n, d) == IF n = NaN \/ n = 0 THEN d ELSE n

\* Math.round(x), x in hundredths: the nearest integer, a half rounds up
RoundUnits(hundredths) == (hundredths + 50) \div 100

\* Math.round(x * 10) / 10, x in hundredths; the result in tenths
RoundTenths(hundredths) == (hundredths + 5) \div 10

\* the object built at lines 156-166
FoodSummary(food) ==
    [food_id |-> food.food_id,
     food_name |-> Or(food.food_name, "Unknown"),
     brand_name |-> food.brand_name,
     calories |-> RoundUnits(NumOr(food.calories, 0)),
     protein |-> RoundTenths(NumOr(food.protein, 0)),
     carbohydrate |-> RoundTenths(NumOr(food.carbs, 0)),
     fat |-> RoundTenths(NumOr(food.fat, 0)),
     serving_size |-> Or(food.servingSize, "100"),
     serving_unit |-> Or(food.servingUnit, "g")]

\* the object built at lines 172-182
FlatRecord(barcode, search, food) ==
    [barcode |-> Or(barcode, search),
     name |-> Or(food.food_name, "Unknown"),
     brand |-> Or(food.brand_name, "FatSecret"),
     calories |-> RoundUnits(NumOr(food.calories, 0)),
     protein |-> RoundTenths(NumOr(food.protein, 0)),
     carbohydrates |-> RoundTenths(NumOr(food.carbs, 0)),
     fat |-> RoundTenths(NumOr(food.fat, 0)),
     servingSize |-> Or(food.servingSize, "100") \o " " \o Or(food.servingUnit, "g"),
     source |-> "fatsecret"]

Response(status, body) == [status |-> status, body |-> body]
ErrorBody(message) == [error |-> message]

\* lines 145-182: the response for what searchFatSecret returned
FoodRespond(barcode, search, result) ==
    IF Truthy(result.error)
    THEN Response(500, ErrorBody("FatSecret error: " \o result.error))
    ELSE IF Len(result.foods) = 0
    THEN Response(404, ErrorBody("Food not found"))
    ELSE IF IsSearchMode(barcode, search)
    THEN Response(200, [foods |-> [i \in 1..Len(result.foods) |-> FoodSummary(result.foods[i])]])
    ELSE Response(200, FlatRecord(barcode, search, result.foods[1]))

----------------------------------------------------------------------------
(* ai.js: handler *)

\* !openaiKey (line 8), negated
AiConfigured(e) == Truthy(e.OPENAI_API_KEY)

\* the default of the destructuring, type = 'guidance' (line 12): it applies
\* to undefined only
TypeOrDefault(type) == IF type = Undefined THEN "guidance" ELSE type

\* !nutrition || !userGoals (line 14)
InputsMissing(nutrition, userGoals) == Falsy(nutrition) \/ Falsy(userGoals)

\* the branches of the if chain (lines 21, 39, 49, 61, 83).  The repository
\* holds a second copy of this handler with a macro_recommendation branch, but
\* that file is no program: its 'analysis' template literal is cut short and
\* the text after it does not parse, so no handler can be loaded from it.
Templates == {"guidance", "recipe", "analysis", "meal_estimate", "food_analysis"}

\* the chain without its else branch
HasTemplateNoElse(type) == TRUE

\* type === '...' for one of the branches; the else branch (line 117) otherwise
HasTemplate(type) == type \in Templates

\* the prompt a branch builds: its template and the objects interpolated
BuildPrompt(type, nutrition, userGoals) ==
    [template |-> type, nutrition |-> nutrition, userGoals |-> userGoals]

NoPrompt == [template |-> "", nutrition |-> Undefined, userGoals |-> Undefined]

\* String.prototype.trim on a list of characters
Whitespace == {" ", "\n", "\t"}

RECURSIVE TrimStart(_)
TrimStart(chars) ==
    IF chars # <<>> /\ Head(chars) \in Whitespace THEN TrimStart(Tail(chars)) ELSE chars

RECURSIVE TrimEnd(_)
TrimEnd(chars) ==
    IF chars # <<>> /\ chars[Len(chars)] \in Whitespace
    THEN TrimEnd(SubSeq(chars, 1, Len(chars) - 1))
    ELSE chars

\* trimStart in place of trim
TrimStartOnly(chars) == TrimStart(chars)

Trim(chars) == TrimEnd(TrimStart(chars))

\* data.choices?.[0]?.message?.content: undefined, a number or a string
ContentUndefined == [kind |-> "undefined", chars |-> <<>>]
ContentNumber == [kind |-> "number", chars |-> <<>>]
ContentString(chars) == [kind |-> "string", chars |-> chars]

\* !message, for message = content || '' (lines 146-148)
NoMessage(content) == content.kind = "undefined" \/ (content.kind = "string" /\ content.chars = <<>>)

\* lines 140-143 with the try's catch (line 157): response.ok is false and
\* response.json() has settled with `data`
AiErrorResponse(data) ==
    IF data.kind = "invalid"
    THEN Response(500, ErrorBody("Unexpected end of JSON input"))
    ELSE IF data.kind = "null"
    THEN Response(500, ErrorBody("Cannot read properties of null (reading 'error')"))
    ELSE Response(500, ErrorBody("OpenAI error: " \o Or(data.errorMessage, "Unknown error")))

\* lines 145-155 with the try's catch: response.ok is true
AiSuccessResponse(data, type) ==
    IF data.kind = "invalid"
    THEN Response(500, ErrorBody("Unexpected end of JSON input"))
    ELSE IF data.kind = "null"
    THEN Response(500, ErrorBody("Cannot read properties of null (reading 'choices')"))
    ELSE IF NoMessage(data.content)
    THEN Response(500, ErrorBody("No response from OpenAI"))
    ELSE IF data.content.kind # "string"
    THEN Response(500, ErrorBody("message.trim is not a function"))
    ELSE Response(200, [message |-> Trim(data.content.chars), type |-> type])

\* response.ok left unchecked
AiRespondNoOkCheck(ok, data, type) == AiSuccessResponse(data, type)

\* if (!response.ok) (line 140)
AiRespond(ok, data, type) ==
    IF ~ok THEN AiErrorResponse(data) ELSE AiSuccessResponse(data, type)

----------------------------------------------------------------------------
(* What the collaborators can supply *)

EnvValues == {Undefined, "", "key"}
Envs ==
    [FATSECRET_CONSUMER_KEY : EnvValues, FATSECRET_CONSUMER_SECRET : EnvValues,
     OPENAI_API_KEY : EnvValues]

Methods == {"POST", "GET"}

Object == "[object Object]"

Body(kind, barcode, search, nutrition, userGoals, type) ==
    [kind |-> kind, barcode |-> barcode, search |-> search,
     nutrition |-> nutrition, userGoals |-> userGoals, type |-> type]

\* req.body of a request that carries no JSON object
BareBodies ==
    {Body(k, Undefined, Undefined, Undefined, Undefined, Undefined) :
        k \in {"undefined", "null", "string"}}

FoodBodies ==
    BareBodies \cup
    {Body("object", b, s, Undefined, Undefined, Undefined) :
        b \in {Undefined, "", "0123456789", Malformed},
        s \in {Undefined, "", "apple", Malformed}}

AiTypes == Templates \cup {Undefined, Null, "", "macro_recommendation", "bogus", "Guidance"}

AiBodies ==
    BareBodies \cup
    {Body("object", Undefined, Undefined, n, u, t) :
        n \in {Undefined, Null, Object}, u \in {Undefined, Null, Object}, t \in AiTypes}

Requests(e) ==
    {[method |-> m, body |-> b] :
        m \in Methods, b \in IF e = "food" THEN FoodBodies ELSE AiBodies}

NoRequest == [method |-> "", body |-> Body("undefined", Undefined, Undefined, Undefined, Undefined, Undefined)]

\* food descriptions the nutrition service may send
Descriptions ==
    {DescUndefined,
     DescNumber,
     DescString(<<>>),
     DescString(<<Seg("Per", "100", "g"), Seg("Calories", "165", "kcal"), Seg("Fat", "3.6", "g"),
                  Seg("Carbs", "0", "g"), Seg("Protein", "31", "g")>>),
     DescString(<<Seg("Calories", "50", "")>>),
     DescString(<<Seg("protein", "31", "g"), Seg("CALORIES", ".", ""), Seg("Carbohydrates", "", ""),
                  Seg("Sodium", "1", "mg"), Seg("Calories", "164.5", "kcal"), Seg("per", "1", "cup"),
                  Seg("Saturated Fat", "3.64", "g"), Seg("Fat", "31", "g")>>),
     DescString(<<Seg("Sodium", "100", "mg")>>)}

\* food items, the id left open
NamedItems == {FoodItem(0, "Apple", "Acme", d) : d \in Descriptions}
PlainItem == FoodItem(0, "Apple", "Acme", DescUndefined)
ItemKinds ==
    {NullItem, FoodItem(0, Undefined, Undefined, DescUndefined), FoodItem(0, "", Undefined, DescString(<<>>))}
    \cup NamedItems

WithId(item, id) == IF item.isNull THEN item ELSE [item EXCEPT !.food_id = id]

\* an array of n items: `first` leads, `last` stands beyond the cut, `rest`
\* fill the middle; the ids ascend or descend
ItemArray(n, first, rest, last, descending) ==
    [i \in 1..n |->
        WithId(IF i = 1 THEN first ELSE IF i > MaxResults THEN last ELSE rest,
               IF descending THEN n + 1 - i ELSE i)]

NoError == [kind |-> "undefined", message |-> Undefined]
NoFood == [kind |-> "undefined", item |-> NullItem, items |-> <<>>]
FoodData(kind, error, food) == [kind |-> kind, error |-> error, food |-> food]

FoodReplies ==
    {FoodData(k, NoError, NoFood) : k \in {"invalid", "null", "object"}}
    \cup {FoodData("object", [kind |-> "object", message |-> m], NoFood) :
            m \in {Undefined, "Invalid signature", EmptyArray}}
    \cup {FoodData("object", NoError, [kind |-> "object", item |-> WithId(it, 7), items |-> <<>>]) :
            it \in ItemKinds}
    \cup {FoodData("object", NoError,
                   [kind |-> "array", item |-> NullItem,
                    items |-> ItemArray(n, first, rest, last, descending)]) :
            n \in 0..MaxItems, first \in ItemKinds,
            rest \in {NullItem, PlainItem, FoodItem(0, Undefined, "Acme", DescNumber)},
            last \in {NullItem, PlainItem},
            descending \in BOOLEAN}

NoReply == FoodData("none", NoError, NoFood)

Chars == {" ", "\n", "a"}
Texts == UNION {[1..n -> Chars] : n \in 0..MaxLen}

AiData(kind, errorMessage, content) ==
    [kind |-> kind, errorMessage |-> errorMessage, content |-> content]

AiReplies ==
    {AiData(k, Undefined, ContentUndefined) : k \in {"invalid", "null"}}
    \cup {AiData("object", m, c) :
            m \in {Undefined, "Rate limit reached"},
            c \in {ContentUndefined, ContentNumber} \cup {ContentString(t) : t \in Texts}}

----------------------------------------------------------------------------
(* The invocation *)

\* parseNutritionFromDescription is not being followed on its own
NotCalled == [state |-> "none", value |-> NutritionDefaults]

Init ==
    /\ env \in Envs
    /\ endpoint = "none"
    /\ req = NoRequest
    /\ pc = "idle"
    /\ query = Undefined
    /\ prompt = NoPrompt
    /\ httpOk = FALSE
    /\ reply = NoReply
    /\ calls = <<>>
    /\ responses = <<>>
    /\ escaped = FALSE
    /\ argument = DescUndefined
    /\ parsed = NotCalled

\* res.status(status).json(body), then return
Send(response) ==
    /\ responses' = Append(responses, response)
    /\ pc' = "done"

\* the platform calls handler(req, res)
Invoke ==
    /\ pc = "idle"
    /\ \E e \in {"food", "ai"} : \E r \in Requests(e) :
        /\ endpoint' = e
        /\ req' = r
    /\ pc' = "entry"
    /\ UNCHANGED <<env, query, prompt, httpOk, reply, calls, responses, escaped>>
    /\ UNCHANGED <<argument, parsed>>

\* food.js handler, lines 123-143, and searchFatSecret up to its await of fetch
FoodEnter ==
    /\ pc = "entry" /\ endpoint = "food"
    /\ LET barcode == Field(req.body, "barcode")
           search == Field(req.body, "search")
       IN  IF req.method # "POST"
           THEN Send(Response(405, ErrorBody("Method not allowed")))
                /\ UNCHANGED <<query, calls, escaped>>
           ELSE IF ~FoodConfigured(env)
           THEN Send(Response(500, ErrorBody("Backend API keys not configured")))
                /\ UNCHANGED <<query, calls, escaped>>
           ELSE IF DestructureThrows(req.body)
           THEN /\ escaped' = TRUE
                /\ pc' = "threw"
                /\ UNCHANGED <<query, calls, responses>>
           ELSE IF QueryMissing(barcode, search)
           THEN Send(Response(400, ErrorBody("Provide either barcode or search query")))
                /\ UNCHANGED <<query, calls, escaped>>
           ELSE /\ query' = FoodQuery(barcode, search)
                /\ IF percentEncodeThrows(query')
                   THEN Send(Response(500, ErrorBody("URI malformed")))
                        /\ UNCHANGED calls
                   ELSE /\ calls' = Append(calls, [service |-> "fatsecret", argument |-> query'])
                        /\ pc' = "fetch"
                        /\ UNCHANGED responses
                /\ UNCHANGED escaped
    /\ UNCHANGED <<env, endpoint, req, prompt, httpOk, reply>>
    /\ UNCHANGED <<argument, parsed>>

\* searchFatSecret: await fetch(..) settles (line 91)
FoodFetchSettles ==
    /\ pc = "fetch" /\ endpoint = "food"
    /\ \/ Send(FoodRespond(Field(req.body, "barcode"), Field(req.body, "search"),
                           searchFatSecretRejected))
       \/ /\ pc' = "json"
          /\ UNCHANGED responses
    /\ UNCHANGED <<env, endpoint, req, query, prompt, httpOk, reply, calls, escaped>>
    /\ UNCHANGED <<argument, parsed>>

\* searchFatSecret: await response.json() settles (line 92), and the handler
\* answers (lines 145-182)
FoodJsonSettles ==
    /\ pc = "json" /\ endpoint = "food"
    /\ \E data \in FoodReplies :
        /\ reply' = data
        /\ Send(FoodRespond(Field(req.body, "barcode"), Field(req.body, "search"),
                            searchFatSecretReturn(data)))
    /\ UNCHANGED <<env, endpoint, req, query, prompt, httpOk, calls, escaped>>
    /\ UNCHANGED <<argument, parsed>>

\* ai.js handler, lines 2-138: up to its await of fetch
AiEnter ==
    /\ pc = "entry" /\ endpoint = "ai"
    /\ LET nutrition == Field(req.body, "nutrition")
           userGoals == Field(req.body, "userGoals")
           type == TypeOrDefault(Field(req.body, "type"))
       IN  IF req.method # "POST"
           THEN Send(Response(405, ErrorBody("Method not allowed")))
                /\ UNCHANGED <<prompt, calls, escaped>>
           ELSE IF ~AiConfigured(env)
           THEN Send(Response(500, ErrorBody("Backend API keys not configured")))
                /\ UNCHANGED <<prompt, calls, escaped>>
           ELSE IF DestructureThrows(req.body)
           THEN /\ escaped' = TRUE
                /\ pc' = "threw"
                /\ UNCHANGED <<prompt, calls, responses>>
           ELSE IF InputsMissing(nutrition, userGoals)
           THEN Send(Response(400, ErrorBody("Provide nutrition and userGoals")))
                /\ UNCHANGED <<prompt, calls, escaped>>
           ELSE IF ~HasTemplate(type)
           THEN Send(Response(400, ErrorBody("Invalid type. Use: guidance, recipe, analysis, meal_estimate, or food_analysis")))
                /\ UNCHANGED <<prompt, calls, escaped>>
           ELSE /\ prompt' = BuildPrompt(type, nutrition, userGoals)
                /\ calls' = Append(calls, [service |-> "openai", argument |-> prompt'.template])
                /\ pc' = "fetch"
                /\ UNCHANGED <<responses, escaped>>
    /\ UNCHANGED <<env, endpoint, req, query, httpOk, reply>>
    /\ UNCHANGED <<argument, parsed>>

\* await fetch(..) settles (line 121): it rejects (caught at line 156) or
\* resolves with a response whose ok the service decides
AiFetchSettles ==
    /\ pc = "fetch" /\ endpoint = "ai"
    /\ \/ /\ Send(Response(500, ErrorBody("fetch failed")))
          /\ UNCHANGED httpOk
       \/ /\ httpOk' \in BOOLEAN
          /\ pc' = "json"
          /\ UNCHANGED responses
    /\ UNCHANGED <<env, endpoint, req, query, prompt, reply, calls, escaped>>
    /\ UNCHANGED <<argument, parsed>>

\* await response.json() settles (line 141 or 145), and the handler answers
AiJsonSettles ==
    /\ pc = "json" /\ endpoint = "ai"
    /\ \E data \in AiReplies :
        /\ reply' = data
        /\ Send(AiRespond(httpOk, data, TypeOrDefault(Field(req.body, "type"))))
    /\ UNCHANGED <<env, endpoint, req, query, prompt, httpOk, calls, escaped>>
    /\ UNCHANGED <<argument, parsed>>

\* the invocation is over; the platform may call a handler again.  Nothing
\* but process.env outlives an invocation.
Recycle ==
    /\ pc \in {"done", "threw"}
    /\ endpoint' = "none"
    /\ req' = NoRequest
    /\ pc' = "idle"
    /\ query' = Undefined
    /\ prompt' = NoPrompt
    /\ httpOk' = FALSE
    /\ reply' = NoReply
    /\ calls' = <<>>
    /\ responses' = <<>>
    /\ escaped' = FALSE
    /\ UNCHANGED env
    /\ UNCHANGED <<argument, parsed>>

Next ==
    \/ Invoke
    \/ FoodEnter
    \/ FoodFetchSettles
    \/ FoodJsonSettles
    \/ AiEnter
    \/ AiFetchSettles
    \/ AiJsonSettles
    \/ Recycle

Spec == Init /\ [][Next]_vars

----------------------------------------------------------------------------
(* parseNutritionFromDescription on its own: one call, on any description an
   upstream food item can carry *)

SegLabels == {"Per", "Calories", "Fat", "Carbs", "Protein", "Sodium"}
SegNums == {"", "50", "."}
SegUnits == {"", "g"}
Segs == {Seg(l, n, u) : l \in SegLabels, n \in SegNums, u \in SegUnits}

ParseInputs ==
    {DescUndefined, DescNull, DescNumber}
    \cup {DescString(segs) : segs \in UNION {[1..n -> Segs] : n \in 0..MaxSegs}}

ParseInit ==
    /\ env = [FATSECRET_CONSUMER_KEY |-> "key", FATSECRET_CONSUMER_SECRET |-> "key",
              OPENAI_API_KEY |-> "key"]
    /\ endpoint = "none"
    /\ req = NoRequest
    /\ pc = "idle"
    /\ query = Undefined
    /\ prompt = NoPrompt
    /\ httpOk = FALSE
    /\ reply = NoReply
    /\ calls = <<>>
    /\ responses = <<>>
    /\ escaped = FALSE
    /\ argument \in ParseInputs
    /\ parsed = [state |-> "pending", value |-> NutritionDefaults]

\* the call runs to its return or to its throw (lines 31-60)
ParseCall ==
    /\ parsed.state = "pending"
    /\ LET r == parseNutritionFromDescription(argument)
       IN  parsed' = [state |-> IF r.threw THEN "threw" ELSE "returned", value |-> r.value]
    /\ UNCHANGED <<env, endpoint, req, pc, query, prompt, httpOk, reply, calls, responses,
                   escaped, argument>>

ParseNext == ParseCall

ParseSpec == ParseInit /\ [][ParseNext]_vars

----------------------------------------------------------------------------
(* Properties *)

\* the six type values the interface names
RecognizedTypes ==
    {"guidance", "recipe", "analysis", "meal_estimate", "food_analysis", "macro_recommendation"}

Finished == pc = "done"
Status == responses[1].status
Answer == responses[1].body
IsFailureBody(body) == DOMAIN body = {"error"}

\* a POST to the AI guidance handler with the API key configured and with
\* nutrition and userGoals present
AiInputsPresent ==
    /\ endpoint = "ai"
    /\ req.method = "POST"
    /\ env.OPENAI_API_KEY \notin {Undefined, ""}
    /\ req.body.kind = "object"
    /\ req.body.nutrition = Object
    /\ req.body.userGoals = Object

\* C1: a POST to the AI guidance handler with the API key configured and
\* nutrition and userGoals present, whose type is given and is none of the six
\* recognized values, is answered 400, and at no point of that request has an
\* outbound call been issued.
C1_UnknownTypeRejectedBeforeCall ==
    (AiInputsPresent /\ req.body.type \notin RecognizedTypes \cup {Undefined})
        => /\ calls = <<>>
           /\ pc \in {"entry", "done"}
           /\ ~escaped
           /\ Finished => (Len(responses) = 1 /\ Status = 400)

C1_Witness ==
    /\ AiInputsPresent
    /\ req.body.type = "bogus"
    /\ Finished
    /\ Status = 400
    /\ calls = <<>>

\* C2: a POST to the AI guidance handler with the API key configured and
\* nutrition and userGoals present, whose type is one of the six recognized
\* values, is never answered 400: the chat-completion call is issued with the
\* prompt built for that type.
C2_RecognizedTypeNeverRejected ==
    (AiInputsPresent /\ req.body.type \in RecognizedTypes /\ pc # "entry")
        => /\ Len(calls) = 1
           /\ calls[1].argument = req.body.type
           /\ Finished => Status # 400

\* a POST to the nutrition search handler with both credentials configured
FoodConfiguredPost ==
    /\ endpoint = "food"
    /\ req.method = "POST"
    /\ env.FATSECRET_CONSUMER_KEY \notin {Undefined, ""}
    /\ env.FATSECRET_CONSUMER_SECRET \notin {Undefined, ""}

CredentialAbsent ==
    \/ /\ endpoint = "food"
       /\ \/ env.FATSECRET_CONSUMER_KEY \in {Undefined, ""}
          \/ env.FATSECRET_CONSUMER_SECRET \in {Undefined, ""}
    \/ /\ endpoint = "ai"
       /\ env.OPENAI_API_KEY \in {Undefined, ""}

\* C4: in both handlers, when a required credential is absent, every POST is
\* answered 500 "Backend API keys not configured" and no outbound call is
\* issued, whatever the body (a missing body included).
C4_NotConfigured ==
    (CredentialAbsent /\ req.method = "POST")
        => /\ calls = <<>>
           /\ pc \in {"entry", "done"}
           /\ ~escaped
           /\ Finished => responses = <<[status |-> 500,
                                         body |-> [error |-> "Backend API keys not configured"]]>>

C4_Witness ==
    /\ endpoint = "food"
    /\ env.FATSECRET_CONSUMER_KEY = "key"
    /\ env.FATSECRET_CONSUMER_SECRET = Undefined
    /\ req.method = "POST"
    /\ req.body.barcode = "0123456789"
    /\ Finished
    /\ Status = 500
    /\ calls = <<>>

C4_WitnessAi ==
    /\ endpoint = "ai"
    /\ env.OPENAI_API_KEY = ""
    /\ req.method = "POST"
    /\ req.body.kind = "undefined"
    /\ Finished
    /\ Status = 500

\* C5: every invocation of either handler ends by sending exactly one
\* response, every failure is sent as {error: message}, and no exception
\* leaves the handler.
C5_OneResponseNoEscape ==
    /\ ~escaped
    /\ pc # "threw"
    /\ Len(responses) <= 1
    /\ Finished => /\ Len(responses) = 1
                   /\ Status # 200 => IsFailureBody(Answer)

\* the nutrition search handler has issued its call: the request passed the
\* handler's validation
FoodCallIssued == FoodConfiguredPost /\ calls # <<>>

\* the items the nutrition service returned, as a list (a single object is a
\* list of one)
UpstreamItems ==
    IF reply.kind # "object" \/ reply.error.kind = "object" THEN <<>>
    ELSE IF reply.food.kind = "array" THEN reply.food.items
    ELSE IF reply.food.kind = "object" THEN <<reply.food.item>>
    ELSE <<>>

\* C6: for a validated request to the nutrition search handler: when the
\* service returns an error payload, or the call or the decoding of its reply
\* fails, the response is 500; when the call succeeds with zero food items
\* the response is 404; a 200 is sent only when at least one item came back.
C6_UpstreamOutcomeStatus ==
    (FoodCallIssued /\ Finished)
        => /\ reply.kind \in {"none", "invalid"} => Status = 500
           /\ (reply.kind = "object" /\ reply.error.kind = "object") => Status = 500
           /\ (reply.kind = "object" /\ reply.error.kind # "object" /\ Len(UpstreamItems) = 0)
                => Status = 404
           /\ Status = 200 => Len(UpstreamItems) >= 1

\* the description of the interface's example
ExampleDescription ==
    [kind |-> "string",
     segs |-> <<[label |-> "Per", num |-> "100", unit |-> "g"],
                [label |-> "Calories", num |-> "165", unit |-> "kcal"],
                [label |-> "Fat", num |-> "3.6", unit |-> "g"],
                [label |-> "Carbs", num |-> "0", unit |-> "g"],
                [label |-> "Protein", num |-> "31", unit |-> "g"]>>]

SearchOnly ==
    /\ req.body.kind = "object"
    /\ req.body.search \notin {Undefined, ""}
    /\ req.body.barcode \in {Undefined, ""}

\* entry `summary` of the response is derived from upstream item `item`
DerivedFrom(summary, item) ==
    /\ DOMAIN summary = {"food_id", "food_name", "brand_name", "calories", "protein",
                         "carbohydrate", "fat", "serving_size", "serving_unit"}
    /\ summary.food_id = item.food_id
    /\ summary.food_name = (IF item.food_name \in {Undefined, ""} THEN "Unknown" ELSE item.food_name)
    /\ summary.brand_name = item.brand_name
    /\ item.food_description = ExampleDescription
        => /\ summary.calories = 165
           /\ summary.fat = 36
           /\ summary.carbohydrate = 0
           /\ summary.protein = 310
           /\ summary.serving_size = "100"
           /\ summary.serving_unit = "g"
    /\ item.food_description.kind = "undefined"
        => /\ summary.calories = 0
           /\ summary.serving_size = "100"
           /\ summary.serving_unit = "g"

\* C7: in search mode (search given, barcode not), when the service returned
\* n >= 1 items, as an array or as a single object, the foods list of the 200
\* response has exactly min(n, 20) entries and entry i is derived from
\* upstream item i.
C7_SearchListInUpstreamOrder ==
    (FoodCallIssued /\ Finished /\ SearchOnly /\ Status = 200)
        => LET n == Len(UpstreamItems)
               m == IF n <= 20 THEN n ELSE 20
           IN  /\ n >= 1
               /\ DOMAIN Answer = {"foods"}
               /\ Len(Answer.foods) = m
               /\ \A i \in 1..m : DerivedFrom(Answer.foods[i], UpstreamItems[i])

C7_Witness ==
    /\ FoodCallIssued /\ Finished /\ SearchOnly /\ Status = 200
    /\ Len(UpstreamItems) > 20
    /\ Len(Answer.foods) = 20
    /\ UpstreamItems[1].food_id > UpstreamItems[2].food_id
    /\ UpstreamItems[1].food_description = ExampleDescription

C7_WitnessSingle ==
    /\ FoodCallIssued /\ Finished /\ SearchOnly /\ Status = 200
    /\ reply.food.kind = "object"
    /\ Len(Answer.foods) = 1

\* C8: whenever a non-empty barcode is supplied, with or without search, the
\* query sent upstream is the barcode and a 200 response is the single flat
\* record built from the first upstream hit, its barcode field the supplied
\* barcode; the {foods: [...]} shape is returned only when search is supplied
\* and barcode is not.
C8_BarcodePreferred ==
    (FoodConfiguredPost /\ req.body.kind = "object")
        => /\ (req.body.barcode \notin {Undefined, ""} /\ calls # <<>>)
                => calls[1].argument = req.body.barcode
           /\ (req.body.barcode \notin {Undefined, ""} /\ Finished /\ Status = 200)
                => /\ "foods" \notin DOMAIN Answer
                   /\ Answer.barcode = req.body.barcode
                   /\ Answer.source = "fatsecret"
                   /\ Len(UpstreamItems) >= 1
                   /\ Answer.name = (IF UpstreamItems[1].food_name \in {Undefined, ""}
                                     THEN "Unknown" ELSE UpstreamItems[1].food_name)
                   /\ Answer.brand = (IF UpstreamItems[1].brand_name \in {Undefined, ""}
                                      THEN "FatSecret" ELSE UpstreamItems[1].brand_name)
                   /\ UpstreamItems[1].food_description = ExampleDescription
                        => /\ Answer.calories = 165
                           /\ Answer.protein = 310
                           /\ Answer.servingSize = "100 g"
           /\ (Finished /\ Status = 200 /\ "foods" \in DOMAIN Answer) => SearchOnly

C8_Witness ==
    /\ FoodConfiguredPost /\ Finished /\ Status = 200
    /\ req.body.barcode = "0123456789"
    /\ req.body.search = "apple"
    /\ calls = <<[service |-> "fatsecret", argument |-> "0123456789"]>>
    /\ Answer.barcode = "0123456789"
    /\ Len(UpstreamItems) > 1

\* the AI guidance handler has issued its call: the request passed the
\* handler's validation
AiCallIssued == AiInputsPresent /\ calls # <<>>

\* the LLM service returned completion text
CompletionText ==
    /\ reply.kind = "object"
    /\ reply.content.kind = "string"
    /\ reply.content.chars # <<>>

IsBlank(c) == c \in {" ", "\n", "\t"}

\* `trimmed` is `text` without its leading and trailing whitespace
IsTrimOf(trimmed, text) ==
    \E a \in 0..Len(text) : \E b \in a..Len(text) :
        /\ trimmed = [k \in 1..(b - a) |-> text[a + k]]
        /\ \A k \in 1..a : IsBlank(text[k])
        /\ \A k \in (b + 1)..Len(text) : IsBlank(text[k])
        /\ (b > a) => (~IsBlank(text[a + 1]) /\ ~IsBlank(text[b]))

\* C9: for a validated request to the AI guidance handler: when the LLM
\* service answers with a non-success status or returns no completion text,
\* the response is 500; otherwise it is 200 with message the completion text
\* trimmed of surrounding whitespace and type the request's type, "guidance"
\* when the request gave none.
C9_CompletionOutcome ==
    (AiCallIssued /\ Finished)
        => /\ Len(responses) = 1
           /\ (~httpOk \/ ~CompletionText) => (Status = 500 /\ IsFailureBody(Answer))
           /\ (httpOk /\ CompletionText)
                => /\ Status = 200
                   /\ DOMAIN Answer = {"message", "type"}
                   /\ IsTrimOf(Answer.message, reply.content.chars)
                   /\ Answer.type = (IF req.body.type = Undefined THEN "guidance"
                                     ELSE req.body.type)

C9_Witness ==
    /\ AiCallIssued /\ Finished
    /\ req.body.type = Undefined
    /\ httpOk
    /\ reply.content.chars = <<" ", "a", "\n">>
    /\ Status = 200
    /\ Answer = [message |-> <<"a">>, type |-> "guidance"]

C9_WitnessFailure ==
    /\ AiCallIssued /\ Finished
    /\ ~httpOk
    /\ CompletionText
    /\ Status = 500

\* the awaited call failed: the fetch was rejected, the reply could not be
\* decoded, the nutrition service sent an error payload or the LLM service
\* a non-success status
UpstreamFailed ==
    \/ reply.kind \in {"none", "invalid"}
    \/ endpoint = "food" /\ reply.kind = "object" /\ reply.error.kind = "object"
    \/ endpoint = "ai" /\ ~httpOk

\* C10: an invocation issues at most one outbound HTTP call; after an
\* upstream failure no second call is made and the request is answered with a
\* failure; a 200 is sent only after exactly one outbound call has completed.
C10_SingleCallNoRetry ==
    /\ Len(calls) <= 1
    /\ (Finished /\ calls # <<>> /\ UpstreamFailed)
            => (Len(responses) = 1 /\ Status >= 400 /\ IsFailureBody(Answer))
    /\ (Finished /\ Status = 200)
            => (Len(calls) = 1 /\ reply.kind = "object")

\* within an invocation the calls issued are never taken back, and no call
\* follows a failure of the first
C10_CallsOnlyGrow ==
    [][pc' # "idle" => (Len(calls') >= Len(calls) /\ (calls # <<>> => calls' = calls))]_vars

C10_Witness ==
    /\ Finished
    /\ endpoint = "ai"
    /\ Len(calls) = 1
    /\ ~httpOk
    /\ reply.kind = "object"
    /\ reply.content.kind = "string"
    /\ reply.content.chars # <<>>
    /\ reply.errorMessage = "Rate limit reached"
    /\ Status = 500

\* the segments of the description that carry one of the labels of `field`
\* followed by what its expression asks for
Labelled(field) ==
    SelectSeq(argument.segs,
              LAMBDA seg : /\ seg.label \in (IF field = "serving" THEN {"Per", "per"}
                                             ELSE IF field = "calories" THEN {"Calories", "CALORIES"}
                                             ELSE IF field = "fat" THEN {"Fat", "Saturated Fat"}
                                             ELSE IF field = "carbs"
                                             THEN {"Carbs", "Carb", "Carbohydrates", "Carbohydrate"}
                                             ELSE {"Protein", "protein"})
                           /\ seg.num # ""
                           /\ (field = "serving" => seg.unit # ""))

\* the number a capture stands for, in hundredths
CaptureValue(num) == IF num = "50" THEN 5000 ELSE NaN

\* the record's fields agree with what the description says of each label,
\* each taken alone: the default when the label is absent, else the label's
\* first occurrence
FieldsIndependent ==
    /\ \A field \in {"calories", "fat", "carbs", "protein"} :
        parsed.value[field] = (IF Labelled(field) = <<>> THEN 0
                               ELSE CaptureValue(Labelled(field)[1].num))
    /\ parsed.value.servingSize = (IF Labelled("serving") = <<>> THEN "100"
                                   ELSE Labelled("serving")[1].num)
    /\ parsed.value.servingUnit = (IF Labelled("serving") = <<>> THEN "g"
                                   ELSE Labelled("serving")[1].unit)

\* C11: parseNutritionFromDescription never raises, whatever description an
\* upstream food item gives it (missing, empty, text without any label, a
\* value that is not text): it always returns a record in which every field
\* whose label is absent keeps its default, and each field is extracted
\* independently of the presence and the order of the others.
C11_ParserNeverRaises ==
    parsed.state \notin {"none", "pending"}
        => /\ parsed.state = "returned"
           /\ FieldsIndependent

\* what the code keeps of C11: on every description that is missing, null or
\* text the call returns, with the defaults and the independence claimed
C11_TextNeverRaises ==
    (parsed.state \notin {"none", "pending"} /\ argument.kind # "number")
        => /\ parsed.state = "returned"
           /\ FieldsIndependent

====
